---- MODULE Spec2Model ----
(***************************************************************************)
(* Model of the WHO Global Health Observatory MCP server: the tool-call   *)
(* handler (index.js) and the six OData operations (who-api.js).          *)
(*                                                                         *)
(* JavaScript strings are sequences of one-character strings, so that      *)
(* split, trim, includes, template interpolation and URL encoding are      *)
(* computed as the code computes them.  A JavaScript value is a record     *)
(* [t, s, n]: t is the type tag, s the characters of a string, n the       *)
(* magnitude of a number.                                                  *)
(***************************************************************************)
EXTENDS Integers, Sequences, FiniteSets, TLC

\* ------------------------------------------------------------------ bounds
\* Largest number of records in an upstream `value` list.
MaxRecords == 2

\* Number of call slots (one handler invocation or one direct call each).
NumCalls == 2

\* ------------------------------------------------------- JavaScript values
Undef == [t |-> "undefined", s |-> <<>>, n |-> 0]

Null == [t |-> "null", s |-> <<>>, n |-> 0]

Str(chars) == [t |-> "string", s |-> chars, n |-> 0]

Num(k) == [t |-> "number", s |-> <<>>, n |-> k]

\* ToBoolean: undefined, null, '' and 0 are falsy.
Truthy(v) ==
    CASE v.t = "string" -> v.s # <<>>
      [] v.t = "number" -> v.n # 0
      [] OTHER -> FALSE

\* a || b
Or(a, b) == IF Truthy(a) THEN a ELSE b

Digit(k) == <<"0", "1", "2", "3", "4", "5", "6", "7", "8", "9">>[k + 1]

RECURSIVE NumToChars(_)
NumToChars(k) ==
    IF k < 10 THEN <<Digit(k)>>
    ELSE NumToChars(k \div 10) \o <<Digit(k % 10)>>

\* ------------------------------------------------------- string literals
WHO_ODATA_BASE_URL ==
    <<"h", "t", "t", "p", "s", ":", "/", "/", "g", "h", "o", "a", "p", "i", ".", "a", "z", "u", "r", "e", "e", "d", "g", "e", ".", "n", "e", "t", "/", "a", "p", "i">>

S_Dimension ==
    <<"D", "i", "m", "e", "n", "s", "i", "o", "n">>

S_DIMENSION_ ==
    <<"D", "I", "M", "E", "N", "S", "I", "O", "N", "/">>

S_DimensionValues ==
    <<"/", "D", "i", "m", "e", "n", "s", "i", "o", "n", "V", "a", "l", "u", "e", "s">>

S_Indicator ==
    <<"I", "n", "d", "i", "c", "a", "t", "o", "r">>

S_contains ==
    <<"c", "o", "n", "t", "a", "i", "n", "s", "(", "I", "n", "d", "i", "c", "a", "t", "o", "r", "N", "a", "m", "e", ",", "'">>

S_containsEnd ==
    <<"'", ")">>

S_SpatialEq ==
    <<"S", "p", "a", "t", "i", "a", "l", "D", "i", "m", " ", "e", "q", " ", "'">>

S_SpatialIn ==
    <<"S", "p", "a", "t", "i", "a", "l", "D", "i", "m", " ", "i", "n", " ", "(">>

S_TimeEq ==
    <<"T", "i", "m", "e", "D", "i", "m", " ", "e", "q", " ">>

S_TimeGe ==
    <<"T", "i", "m", "e", "D", "i", "m", " ", "g", "e", " ">>

S_AndTimeLe ==
    <<" ", "a", "n", "d", " ", "T", "i", "m", "e", "D", "i", "m", " ", "l", "e", " ">>

S_Dim1Eq ==
    <<"D", "i", "m", "1", " ", "e", "q", " ", "'">>

S_And ==
    <<" ", "a", "n", "d", " ">>

S_filter ==
    <<"$", "f", "i", "l", "t", "e", "r">>

S_top ==
    <<"$", "t", "o", "p">>

S_orderby ==
    <<"$", "o", "r", "d", "e", "r", "b", "y">>

S_TimeDimDesc ==
    <<"T", "i", "m", "e", "D", "i", "m", " ", "d", "e", "s", "c">>

S_SpatialTimeDesc ==
    <<"S", "p", "a", "t", "i", "a", "l", "D", "i", "m", ",", " ", "T", "i", "m", "e", "D", "i", "m", " ", "d", "e", "s", "c">>

S_undefined ==
    <<"u", "n", "d", "e", "f", "i", "n", "e", "d">>

S_null ==
    <<"n", "u", "l", "l">>

Unreserved ==
    {"a", "b", "c", "d", "e", "f", "g", "h", "i", "j", "k", "l", "m", "n", "o", "p", "q", "r", "s", "t", "u", "v", "w", "x", "y", "z", "A", "B", "C", "D", "E", "F", "G", "H", "I", "J", "K", "L", "M", "N", "O", "P", "Q", "R", "S", "T", "U", "V", "W", "X", "Y", "Z", "0", "1", "2", "3", "4", "5", "6", "7", "8", "9", "*", "-", ".", "_"}

EncodeChar(c) ==
    IF c \in Unreserved THEN <<c>>
    ELSE CASE c = "!" -> <<"%", "2", "1">>
           [] c = "#" -> <<"%", "2", "3">>
           [] c = "$" -> <<"%", "2", "4">>
           [] c = "%" -> <<"%", "2", "5">>
           [] c = "&" -> <<"%", "2", "6">>
           [] c = "'" -> <<"%", "2", "7">>
           [] c = "(" -> <<"%", "2", "8">>
           [] c = ")" -> <<"%", "2", "9">>
           [] c = "+" -> <<"%", "2", "B">>
           [] c = "," -> <<"%", "2", "C">>
           [] c = "/" -> <<"%", "2", "F">>
           [] c = ":" -> <<"%", "3", "A">>
           [] c = ";" -> <<"%", "3", "B">>
           [] c = "<" -> <<"%", "3", "C">>
           [] c = "=" -> <<"%", "3", "D">>
           [] c = ">" -> <<"%", "3", "E">>
           [] c = "?" -> <<"%", "3", "F">>
           [] c = "@" -> <<"%", "4", "0">>
           [] c = "[" -> <<"%", "5", "B">>
           [] c = "]" -> <<"%", "5", "D">>
           [] c = " " -> <<"+">>
           [] c = "\t" -> <<"%", "0", "9">>
           [] c = "\n" -> <<"%", "0", "A">>


\* ToString, as applied by template literals and URLSearchParams.append.
ToStr(v) ==
    CASE v.t = "string" -> v.s
      [] v.t = "number" -> NumToChars(v.n)
      [] v.t = "null" -> S_null
      [] OTHER -> S_undefined

\* ------------------------------------------------- String.prototype methods
Includes(chars, c) == \E i \in 1..Len(chars) : chars[i] = c

\* chars.indexOf(c, from): the first position of c at or after from, 0 when
\* there is none (positions count from 1).
IndexOf(chars, c, from) ==
    LET hits == {i \in from..Len(chars) : chars[i] = c} IN
    IF hits = {} THEN 0 ELSE CHOOSE i \in hits : \A j \in hits : i <= j

\* chars.split(c): the pieces between the occurrences of c.
RECURSIVE Split(_, _)
Split(chars, c) ==
    LET i == IndexOf(chars, c, 1) IN
    IF i = 0 THEN <<chars>>
    ELSE <<SubSeq(chars, 1, i - 1)>> \o Split(SubSeq(chars, i + 1, Len(chars)), c)

WhiteSpace == {" ", "\t", "\n"}

RECURSIVE TrimStart(_)
TrimStart(chars) ==
    IF chars # <<>> /\ Head(chars) \in WhiteSpace THEN TrimStart(Tail(chars))
    ELSE chars

RECURSIVE TrimEnd(_)
TrimEnd(chars) ==
    IF chars # <<>> /\ chars[Len(chars)] \in WhiteSpace
    THEN TrimEnd(SubSeq(chars, 1, Len(chars) - 1))
    ELSE chars

Trim(chars) == TrimEnd(TrimStart(chars))

\* The concatenation of a sequence of strings.
RECURSIVE Concat(_)
Concat(parts) ==
    IF Len(parts) = 0 THEN <<>>
    ELSE IF Len(parts) = 1 THEN parts[1]
    ELSE LET half == Len(parts) \div 2 IN
         Concat(SubSeq(parts, 1, half)) \o Concat(SubSeq(parts, half + 1, Len(parts)))

\* parts.join(sep) for a sequence of strings.
Join(parts, sep) ==
    IF parts = <<>> THEN <<>>
    ELSE Concat([i \in 1..(2 * Len(parts) - 1) |->
                    IF i % 2 = 1 THEN parts[(i + 1) \div 2] ELSE sep])

\* application/x-www-form-urlencoded serialisation of one string.
Encode(chars) == Concat([i \in 1..Len(chars) |-> EncodeChar(chars[i])])

\* ------------------------------------------------------------ who-api.js
SOURCE == "WHO Global Health Observatory (OData API)"

EmptyStr == Str(<<>>)

\* The test that drops every falsy value, 0 included.
KeepParam_Falsy(value) == Truthy(value)

\* The test of generateWhoODataUrl on each entry: value !== undefined &&
\* value !== null && value !== ''.
KeepParam(value) ==
    /\ value.t # "undefined"
    /\ value.t # "null"
    /\ ~(value.t = "string" /\ value.s = <<>>)

\* URLSearchParams.toString() over the entries appended, in their order.
QueryString(entries) ==
    Join([i \in 1..Len(entries) |->
             Encode(entries[i][1]) \o <<"=">> \o Encode(ToStr(entries[i][2]))],
         <<"&">>)

\* endpoint is a JavaScript value, params a sequence of <<key, value>>
\* entries in the insertion order of the object.
generateWhoODataUrl(endpoint, params) ==
    LET path == IF Truthy(endpoint) THEN <<"/">> \o ToStr(endpoint) ELSE <<>>
        kept == SelectSeq(params, LAMBDA e : KeepParam(e[2]))
        queryString == QueryString(kept)
    IN  WHO_ODATA_BASE_URL \o path
          \o (IF queryString # <<>> THEN <<"?">> \o queryString ELSE <<>>)

\* An Error object: constructor name and message (a sequence of fragments).
Error(fragments) == [name |-> "Error", message |-> fragments]

TypeError(fragments) == [name |-> "TypeError", message |-> fragments]

\* The synchronous part of an async function ends by throwing or by
\* awaiting axios.get(url).
Throw(e) == [kind |-> "throw", error |-> e, url |-> <<>>]

Await(u) == [kind |-> "await", error |-> Error(<<>>), url |-> u]

MSG_RequestFailed == "WHO OData API request failed: "

MSG_IndicatorRequired == "indicator_code parameter is required"

MSG_NotIterable == "result.value is not iterable"

\* makeWhoODataRequest throwing a fixed message, without error.message.
makeWhoODataRequest_DropCause(resp) ==
    IF resp.ok THEN [kind |-> "return", value |-> resp.payload]
    ELSE [kind |-> "throw", error |-> Error(<<MSG_RequestFailed>>)]

\* makeWhoODataRequest after axios.get settled: resp.ok is FALSE when
\* axios.get or the decoding threw an error with message resp.cause.
makeWhoODataRequest(resp) ==
    IF resp.ok THEN [kind |-> "return", value |-> resp.payload]
    ELSE [kind |-> "throw", error |-> Error(<<MSG_RequestFailed, resp.cause>>)]

\* ---- the decoded payload
RecordFields ==
    {"Code", "Title", "Description", "ParentCode",
     "IndicatorCode", "IndicatorName", "Category", "Definition", "Method",
     "Interpretation",
     "Value", "NumericValue", "SpatialDim", "TimeDim", "TimeDimensionBegin",
     "TimeDimensionEnd", "Dim1", "Dim2", "Dim3", "Comments", "DataSourceCode"}

\* A record of the value list: the fields it carries; any other is undefined.
Rec(fields) ==
    [f \in RecordFields |-> IF f \in DOMAIN fields THEN fields[f] ELSE Undef]

\* Property access on a primitive string yields undefined for every field.
CharRec == [f \in RecordFields |-> Undef]

\* result?.value is truthy
ValueTruthy(payload) ==
    CASE payload.kind = "array" -> TRUE
      [] payload.kind = "object" -> TRUE
      [] payload.kind = "number" -> payload.n # 0
      [] payload.kind = "string" -> payload.s # <<>>
      [] OTHER -> FALSE

\* for (const x of result.value) is defined on arrays and strings only.
Iterable(payload) == payload.kind \in {"array", "string"}

\* The elements the for-of loop visits.
Elements(payload) ==
    IF payload.kind = "array" THEN payload.list
    ELSE [i \in 1..Len(payload.s) |-> CharRec]

\* The parse loop shared by the operations: the elements it visits, in
\* order; a truthy value that is not iterable throws.
ParseLoop(payload) ==
    IF ~ValueTruthy(payload) THEN [kind |-> "return", value |-> <<>>]
    ELSE IF ~Iterable(payload)
    THEN [kind |-> "throw", error |-> TypeError(<<MSG_NotIterable>>)]
    ELSE [kind |-> "return", value |-> Elements(payload)]

\* ---- getDimensions
DimensionOf(dim) ==
    [code |-> Or(dim.Code, EmptyStr),
     title |-> Or(dim.Title, EmptyStr),
     description |-> Or(dim.Description, EmptyStr)]

getDimensionsStart == Await(generateWhoODataUrl(Str(S_Dimension), <<>>))

getDimensionsFinish(u, payload) ==
    LET parsed == ParseLoop(payload)
        dimensions == [i \in 1..Len(parsed.value) |-> DimensionOf(parsed.value[i])]
    IN
    IF parsed.kind = "throw" THEN parsed
    ELSE [kind |-> "return",
          value |-> [dimensions |-> dimensions,
                     total_count |-> Len(dimensions),
                     source |-> SOURCE,
                     api_url |-> u]]

\* ---- getDimensionCodes
\* The dimension code with '' instead of null for a missing ParentCode.
DimensionCodeOf_EmptyParent(code) ==
    [code |-> Or(code.Code, EmptyStr),
     title |-> Or(code.Title, EmptyStr),
     description |-> Or(code.Description, EmptyStr),
     parent_code |-> Or(code.ParentCode, EmptyStr)]

DimensionCodeOf(code) ==
    [code |-> Or(code.Code, EmptyStr),
     title |-> Or(code.Title, EmptyStr),
     description |-> Or(code.Description, EmptyStr),
     parent_code |-> Or(code.ParentCode, Null)]

getDimensionCodesStart(dimensionCode) ==
    Await(generateWhoODataUrl(
            Str(S_DIMENSION_ \o ToStr(dimensionCode) \o S_DimensionValues), <<>>))

getDimensionCodesFinish(dimensionCode, u, payload) ==
    LET parsed == ParseLoop(payload)
        codes == [i \in 1..Len(parsed.value) |-> DimensionCodeOf(parsed.value[i])]
    IN
    IF parsed.kind = "throw" THEN parsed
    ELSE [kind |-> "return",
          value |-> [dimension |-> dimensionCode,
                     codes |-> codes,
                     total_count |-> Len(codes),
                     source |-> SOURCE,
                     api_url |-> u]]

\* ---- getHealthData
\* params is [indicator_code, filter, top, orderby].
HealthDataQuery(params) ==
    (IF Truthy(params.filter) THEN << <<S_filter, params.filter>> >> ELSE <<>>)
      \o (IF Truthy(params.top) THEN << <<S_top, params.top>> >> ELSE <<>>)
      \o (IF Truthy(params.orderby) THEN << <<S_orderby, params.orderby>> >> ELSE <<>>)

\* getHealthData without its indicator_code check.
getHealthDataStart_NoCheck(params) ==
    Await(generateWhoODataUrl(params.indicator_code, HealthDataQuery(params)))

getHealthDataStart(params) ==
    IF ~Truthy(params.indicator_code)
    THEN Throw(Error(<<MSG_IndicatorRequired>>))
    ELSE Await(generateWhoODataUrl(params.indicator_code, HealthDataQuery(params)))

DataPointOf(indicator_code, fact) ==
    [indicator |-> indicator_code,
     value |-> Or(Or(fact.Value, fact.NumericValue), EmptyStr),
     numeric_value |-> Or(fact.NumericValue, Null),
     display_value |-> Or(fact.Value, EmptyStr),
     spatial_dim |-> Or(fact.SpatialDim, EmptyStr),
     time_dim |-> Or(fact.TimeDim, EmptyStr),
     time_dim_begin |-> Or(fact.TimeDimensionBegin, EmptyStr),
     time_dim_end |-> Or(fact.TimeDimensionEnd, EmptyStr),
     dim1 |-> Or(fact.Dim1, EmptyStr),
     dim2 |-> Or(fact.Dim2, EmptyStr),
     dim3 |-> Or(fact.Dim3, EmptyStr),
     comments |-> Or(fact.Comments, EmptyStr),
     data_source_code |-> Or(fact.DataSourceCode, EmptyStr)]

\* getHealthData counting only the data points that have a value.
getHealthDataFinish_CountValues(indicator_code, u, payload) ==
    LET parsed == ParseLoop(payload)
        healthData == [i \in 1..Len(parsed.value) |->
                          DataPointOf(indicator_code, parsed.value[i])]
    IN  IF parsed.kind = "throw" THEN parsed
        ELSE [kind |-> "return",
              value |-> [indicator |-> indicator_code,
                         data |-> healthData,
                         total_count |->
                             Cardinality({i \in 1..Len(healthData) :
                                             Truthy(healthData[i].value)}),
                         source |-> SOURCE,
                         api_url |-> u]]

getHealthDataFinish(indicator_code, u, payload) ==
    LET parsed == ParseLoop(payload)
        healthData == [i \in 1..Len(parsed.value) |->
                          DataPointOf(indicator_code, parsed.value[i])]
    IN  IF parsed.kind = "throw" THEN parsed
        ELSE [kind |-> "return",
              value |-> [indicator |-> indicator_code,
                         data |-> healthData,
                         total_count |-> Len(healthData),
                         source |-> SOURCE,
                         api_url |-> u]]

\* ---- searchIndicators
IndicatorOf(indicator) ==
    [code |-> Or(indicator.IndicatorCode, EmptyStr),
     name |-> Or(indicator.IndicatorName, EmptyStr),
     category |-> Or(indicator.Category, EmptyStr),
     definition |-> Or(indicator.Definition, EmptyStr),
     method |-> Or(indicator.Method, EmptyStr),
     interpretation |-> Or(indicator.Interpretation, EmptyStr)]

searchIndicatorsStart(keywords) ==
    LET filter == Str(S_contains \o ToStr(keywords) \o S_containsEnd) IN
    Await(generateWhoODataUrl(Str(S_Indicator), << <<S_filter, filter>> >>))

searchIndicatorsFinish(keywords, u, payload) ==
    LET parsed == ParseLoop(payload)
        indicators == [i \in 1..Len(parsed.value) |-> IndicatorOf(parsed.value[i])]
    IN
    IF parsed.kind = "throw" THEN parsed
    ELSE [kind |-> "return",
          value |-> [keywords |-> keywords,
                     indicators |-> indicators,
                     total_count |-> Len(indicators),
                     source |-> SOURCE,
                     api_url |-> u]]

\* ---- getCountryData
Quote == <<"'">>

CountryDataFilters(params) ==
    (IF Truthy(params.country_code)
     THEN <<S_SpatialEq \o ToStr(params.country_code) \o Quote>> ELSE <<>>)
      \o (IF Truthy(params.year)
          THEN <<S_TimeEq \o ToStr(params.year)>> ELSE <<>>)
      \o (IF Truthy(params.sex)
          THEN <<S_Dim1Eq \o ToStr(params.sex) \o Quote>> ELSE <<>>)

\* filters.join(' and ') without the test for an empty list.
FilterString_NoNull(filters) == Str(Join(filters, S_And))

\* filters.length > 0 ? filters.join(' and ') : null
FilterString(filters) ==
    IF Len(filters) > 0 THEN Str(Join(filters, S_And)) ELSE Null

\* The params object getCountryData hands to getHealthData.
CountryDataDelegate(params) ==
    [indicator_code |-> params.indicator_code,
     filter |-> FilterString(CountryDataFilters(params)),
     top |-> params.top,
     orderby |-> Str(S_TimeDimDesc)]

getCountryDataStart(params) ==
    IF ~Truthy(params.indicator_code)
    THEN Throw(Error(<<MSG_IndicatorRequired>>))
    ELSE getHealthDataStart(CountryDataDelegate(params))

getCountryDataFinish(params, u, payload) ==
    getHealthDataFinish(params.indicator_code, u, payload)

\* ---- getCrossTable
DEFAULT_TOP == 1000

MSG_SplitNotFunction == "countries.split is not a function"

MSG_IncludesNotFunction == "years.includes is not a function"

\* The country list without c.trim().
CountryList_NoTrim(countries) ==
    LET parts == Split(countries, ",") IN
    Join([i \in 1..Len(parts) |-> Quote \o parts[i] \o Quote], <<",">>)

\* countries.split(',').map(c => `'${c.trim()}'`).join(',')
CountryList(countries) ==
    LET parts == Split(countries, ",") IN
    Join([i \in 1..Len(parts) |-> Quote \o Trim(parts[i]) \o Quote], <<",">>)

CountriesClause(countries) == S_SpatialIn \o CountryList(countries) \o <<")">>

\* The years branch: a range when the string includes ':', else equality.
YearsClause(years) ==
    IF Includes(years, ":")
    THEN LET parts == Split(years, ":")
             startYear == parts[1]
             endYear == parts[2]
         IN  S_TimeGe \o startYear \o S_AndTimeLe \o endYear
    ELSE S_TimeEq \o years

CrossTableFilters(params) ==
    (IF Truthy(params.countries)
     THEN <<CountriesClause(params.countries.s)>> ELSE <<>>)
      \o (IF Truthy(params.years)
          THEN <<YearsClause(params.years.s)>> ELSE <<>>)
      \o (IF Truthy(params.sex)
          THEN <<S_Dim1Eq \o ToStr(params.sex) \o Quote>> ELSE <<>>)

\* top = 1000 applies when the property is undefined.
CrossTableTop(params) ==
    IF params.top.t = "undefined" THEN Num(DEFAULT_TOP) ELSE params.top

CrossTableDelegate(params) ==
    [indicator_code |-> params.indicator_code,
     filter |-> FilterString(CrossTableFilters(params)),
     top |-> CrossTableTop(params),
     orderby |-> Str(S_SpatialTimeDesc)]

getCrossTableStart(params) ==
    IF ~Truthy(params.indicator_code)
    THEN Throw(Error(<<MSG_IndicatorRequired>>))
    ELSE IF Truthy(params.countries) /\ params.countries.t # "string"
    THEN Throw(TypeError(<<MSG_SplitNotFunction>>))
    ELSE IF Truthy(params.years) /\ params.years.t # "string"
    THEN Throw(TypeError(<<MSG_IncludesNotFunction>>))
    ELSE getHealthDataStart(CrossTableDelegate(params))

\* [...new Set(data.map(d => d[field]))].length
UniqueCount(data, field) == Cardinality({data[i][field] : i \in 1..Len(data)})

CrossTableSummary(data) ==
    [unique_countries |-> UniqueCount(data, "spatial_dim"),
     unique_years |-> UniqueCount(data, "time_dim"),
     total_records |-> Len(data)]

\* The distinct elements of data, in the order of their first occurrence.
Distinct(data) ==
    LET firsts == {i \in 1..Len(data) : \A j \in 1..(i - 1) : data[j] # data[i]}
        nth(k) == CHOOSE i \in firsts :
                      Cardinality({j \in firsts : j < i}) = k - 1
    IN  [k \in 1..Cardinality(firsts) |-> data[nth(k)]]

\* getCrossTable returning the table without repeated data points.
getCrossTableFinish_Dedup(params, u, payload) ==
    LET healthData == getHealthDataFinish(params.indicator_code, u, payload) IN
    IF healthData.kind = "throw" THEN healthData
    ELSE [kind |-> "return",
          value |-> [indicator |-> params.indicator_code,
                     structured_data |-> Distinct(healthData.value.data),
                     summary |-> CrossTableSummary(healthData.value.data),
                     source |-> SOURCE,
                     api_url |-> healthData.value.api_url]]

getCrossTableFinish(params, u, payload) ==
    LET healthData == getHealthDataFinish(params.indicator_code, u, payload) IN
    IF healthData.kind = "throw" THEN healthData
    ELSE [kind |-> "return",
          value |-> [indicator |-> params.indicator_code,
                     structured_data |-> healthData.value.data,
                     summary |-> CrossTableSummary(healthData.value.data),
                     source |-> SOURCE,
                     api_url |-> healthData.value.api_url]]

\* ------------------------------------------------------------- index.js
TOOL_NAME == "who-health"

Methods ==
    {"get_dimensions", "get_dimension_codes", "get_health_data",
     "search_indicators", "get_country_data", "get_cross_table"}

ParamNames ==
    {"indicator_code", "dimension_code", "keywords", "filter", "top",
     "orderby", "country_code", "region_code", "year", "countries", "years",
     "sex"}

MSG_UnknownTool == "Unknown tool: "

MSG_UnknownMethod == "Unknown method: "

MSG_NoArgs == "Cannot destructure property 'method' of 'args' as it is undefined."

MSG_DimensionCodeRequired == "dimension_code parameter is required for get_dimension_codes"

MSG_HealthDataRequired == "indicator_code parameter is required for get_health_data"

MSG_KeywordsRequired == "keywords parameter is required for search_indicators"

MSG_CountryDataRequired == "indicator_code parameter is required for get_country_data"

MSG_CrossTableRequired == "indicator_code parameter is required for get_cross_table"

\* JSON.stringify(x, null, 2): the text, tagged with the object it encodes.
\* Every property of the objects serialised here is defined, so none is
\* dropped by the serialisation.
Stringify(x) == [json |-> x]

\* { content: [ { type: 'text', text: JSON.stringify(x, null, 2) } ] }
TextContent(x) == [content |-> <<[type |-> "text", text |-> Stringify(x)]>>]

\* The synchronous start of the operation a method names.
OpStart(method, params) ==
    CASE method = "get_dimensions" -> getDimensionsStart
      [] method = "get_dimension_codes" -> getDimensionCodesStart(params.dimension_code)
      [] method = "get_health_data" -> getHealthDataStart(params)
      [] method = "search_indicators" -> searchIndicatorsStart(params.keywords)
      [] method = "get_country_data" -> getCountryDataStart(params)
      [] method = "get_cross_table" -> getCrossTableStart(params)

\* The continuation of the operation once axios.get has settled.
OpFinish(method, params, u, resp) ==
    LET result == makeWhoODataRequest(resp) IN
    IF result.kind = "throw" THEN result
    ELSE CASE method = "get_dimensions" -> getDimensionsFinish(u, result.value)
           [] method = "get_dimension_codes" ->
                getDimensionCodesFinish(params.dimension_code, u, result.value)
           [] method = "get_health_data" ->
                getHealthDataFinish(params.indicator_code, u, result.value)
           [] method = "search_indicators" ->
                searchIndicatorsFinish(params.keywords, u, result.value)
           [] method = "get_country_data" ->
                getCountryDataFinish(params, u, result.value)
           [] method = "get_cross_table" ->
                getCrossTableFinish(params, u, result.value)

\* The parameter check of the switch case, before the operation is called:
\* the message thrown, "" when the case throws nothing.
CaseCheck(method, params) ==
    CASE method = "get_dimension_codes" /\ ~Truthy(params.dimension_code) ->
           MSG_DimensionCodeRequired
      [] method = "get_health_data" /\ ~Truthy(params.indicator_code) ->
           MSG_HealthDataRequired
      [] method = "search_indicators" /\ ~Truthy(params.keywords) ->
           MSG_KeywordsRequired
      [] method = "get_country_data" /\ ~Truthy(params.indicator_code) ->
           MSG_CountryDataRequired
      [] method = "get_cross_table" /\ ~Truthy(params.indicator_code) ->
           MSG_CrossTableRequired
      [] OTHER -> ""

\* catch (error): the failure becomes a normal result.
CatchError(e) ==
    [kind |-> "return", value |-> TextContent([error |-> e.message])]

\* The body of the try block up to the first await.
TryStart(request) ==
    IF ~request.hasArgs THEN Throw(TypeError(<<MSG_NoArgs>>))
    ELSE IF request.method \notin Methods
    THEN Throw(Error(<<MSG_UnknownMethod, request.method>>))
    ELSE IF CaseCheck(request.method, request.params) # ""
    THEN Throw(Error(<<CaseCheck(request.method, request.params)>>))
    ELSE OpStart(request.method, request.params)

\* The CallToolRequestSchema handler up to the first await.
HandlerStart(request) ==
    IF request.name # TOOL_NAME
    THEN Throw(Error(<<MSG_UnknownTool, request.name>>))
    ELSE LET r == TryStart(request) IN
         IF r.kind = "throw" THEN CatchError(r.error) ELSE r

\* The handler with the operation's promise returned without await, so
\* that its rejection escapes the try block.
HandlerFinish_NoCatch(request, u, resp) ==
    LET r == OpFinish(request.method, request.params, u, resp) IN
    IF r.kind = "throw" THEN r
    ELSE [kind |-> "return", value |-> TextContent(r.value)]

\* The handler after the awaited operation settled.
HandlerFinish(request, u, resp) ==
    LET r == OpFinish(request.method, request.params, u, resp) IN
    IF r.kind = "throw" THEN CatchError(r.error)
    ELSE [kind |-> "return", value |-> TextContent(r.value)]

\* ------------------------------------------------------------------ inputs
IN_X == <<"X">>

IN_USA == <<"U", "S", "A">>

IN_FRA == <<"F", "R", "A">>

IN_EUR == <<"E", "U", "R">>

IN_USA_FRA == <<"U", "S", "A", ",", "F", "R", "A">>

IN_USA_FRA_Spaced == <<" ", "U", "S", "A", " ", ",", " ", "F", "R", "A">>

IN_2019 == <<"2", "0", "1", "9">>

IN_2020 == <<"2", "0", "2", "0">>

IN_2018_2020 == <<"2", "0", "1", "8", ":", "2", "0", "2", "0">>

IN_2015_2020 == <<"2", "0", "1", "5", ":", "2", "0", "2", "0">>

IN_MLE == <<"M", "L", "E">>

IN_COUNTRY == <<"C", "O", "U", "N", "T", "R", "Y">>

IN_life == <<"l", "i", "f", "e">>

IN_Filter == <<"D", "i", "m", "1", " ", "n", "e", " ", "n", "u", "l", "l">>

IN_OrderBy == <<"T", "i", "m", "e", "D", "i", "m">>

IN_12_3 == <<"1", "2", ".", "3">>

IN_UnitedStates == <<"U", "n", "i", "t", "e", "d", " ", "S", "t", "a", "t", "e", "s">>

IN_France == <<"F", "r", "a", "n", "c", "e">>

IN_LifeExp == <<"L", "i", "f", "e", " ", "e", "x", "p", "e", "c", "t", "a", "n", "c", "y">>

IN_ab == <<"a", "b">>

\* A params object: the properties given; every other one is undefined.
Params(given) ==
    [k \in ParamNames |-> IF k \in DOMAIN given THEN given[k] ELSE Undef]

NoParams == [k \in ParamNames |-> Undef]

\* p with the properties of extra added or replaced.
With(p, extra) ==
    [k \in ParamNames |-> IF k \in DOMAIN extra THEN extra[k] ELSE p[k]]

IndicatorCodes == {Undef, EmptyStr, Str(IN_X)}

HealthDataArgs ==
    {Params([indicator_code |-> i, filter |-> f, top |-> t, orderby |-> o]) :
        i \in IndicatorCodes,
        f \in {Undef, EmptyStr, Str(IN_Filter)},
        t \in {Undef, Num(0), Num(10)},
        o \in {Undef, Str(IN_OrderBy)}}

CountryDataExtras ==
    {<<>>,
     [region_code |-> Str(IN_EUR)],
     [top |-> Num(10)],
     [orderby |-> Str(IN_OrderBy), filter |-> Str(IN_Filter)]}

CountryDataArgs ==
    {With(Params([indicator_code |-> i, country_code |-> cc, year |-> y, sex |-> s]), x) :
        i \in IndicatorCodes,
        cc \in {Undef, Str(IN_USA)},
        y \in {Undef, EmptyStr, Str(IN_2020), Str(IN_2015_2020)},
        s \in {Undef, Str(IN_MLE)},
        x \in CountryDataExtras}

CrossTableExtras ==
    {<<>>,
     [top |-> Num(10)],
     [top |-> Num(0)],
     [orderby |-> Str(IN_OrderBy), filter |-> Str(IN_Filter)]}

CrossTableArgs ==
    {With(Params([indicator_code |-> i, countries |-> cs, years |-> ys, sex |-> s]), x) :
        i \in IndicatorCodes,
        cs \in {Undef, Str(IN_USA_FRA), Str(IN_USA_FRA_Spaced)},
        ys \in {Undef, Str(IN_2019), Str(IN_2018_2020), Num(2019)},
        s \in {Undef, Str(IN_MLE)},
        x \in CrossTableExtras}

ArgsFor(method) ==
    CASE method = "get_dimensions" -> {NoParams}
      [] method = "get_dimension_codes" ->
           {Params([dimension_code |-> d]) : d \in {Undef, EmptyStr, Str(IN_COUNTRY)}}
      [] method = "search_indicators" ->
           {Params([keywords |-> k]) : k \in {Undef, EmptyStr, Str(IN_life)}}
      [] method = "get_health_data" -> HealthDataArgs
      [] method = "get_country_data" -> CountryDataArgs
      [] method = "get_cross_table" -> CrossTableArgs

Request(name, hasArgs, method, params) ==
    [name |-> name, hasArgs |-> hasArgs, method |-> method, params |-> params]

\* The requests a client sends: well-formed ones, one for a method the
\* switch does not know, one without a method, one without arguments, and
\* one for another tool.
ToolRequests ==
    UNION {{Request(TOOL_NAME, TRUE, m, p) : p \in ArgsFor(m)} : m \in Methods}
      \cup {Request(TOOL_NAME, TRUE, "get_everything", NoParams),
            Request(TOOL_NAME, TRUE, "undefined", NoParams),
            Request(TOOL_NAME, FALSE, "undefined", NoParams),
            Request("who-data", TRUE, "get_dimensions", NoParams)}

\* ---- upstream responses
Payload(kind, n, s, list) == [kind |-> kind, n |-> n, s |-> s, list |-> list]

\* A record that carries every field the projections read.
FullRecord ==
    [f \in RecordFields |-> IF f = "NumericValue" THEN Num(7) ELSE Str(IN_ab)]

PayloadRecords ==
    {FullRecord,
     Rec([Code |-> Str(IN_USA), Title |-> Str(IN_UnitedStates)]),
     Rec([Code |-> Str(IN_FRA), Title |-> Str(IN_France), ParentCode |-> Str(IN_EUR)]),
     Rec([Value |-> Str(IN_12_3), SpatialDim |-> Str(IN_USA), TimeDim |-> Num(2019)]),
     Rec([Value |-> Str(IN_12_3), NumericValue |-> Num(12),
          SpatialDim |-> Str(IN_FRA), TimeDim |-> Num(2019), Dim1 |-> Str(IN_MLE)]),
     Rec([NumericValue |-> Num(0), SpatialDim |-> Str(IN_USA)]),
     Rec([IndicatorCode |-> Str(IN_X), IndicatorName |-> Str(IN_LifeExp)])}

RecordLists ==
    UNION {[1..k -> PayloadRecords] : k \in 0..MaxRecords}

\* Decoded bodies: no object at all, an object without `value`, and `value`
\* null, a number, a string, a mapping or a list of records.
Payloads ==
    {Payload("noresult", 0, <<>>, <<>>),
     Payload("novalue", 0, <<>>, <<>>),
     Payload("null", 0, <<>>, <<>>),
     Payload("number", 0, <<>>, <<>>),
     Payload("number", 5, <<>>, <<>>),
     Payload("string", 0, <<>>, <<>>),
     Payload("string", 0, IN_ab, <<>>),
     Payload("object", 0, <<>>, <<>>)}
      \cup {Payload("array", 0, <<>>, l) : l \in RecordLists}

NoPayload == Payload("none", 0, <<>>, <<>>)

\* The messages of the errors axios.get and JSON.parse throw.
Causes ==
    {"timeout of 30000ms exceeded", "Network Error",
     "Request failed with status code 500",
     "Unexpected token < in JSON at position 0"}

Responses ==
    {[ok |-> TRUE, cause |-> "", payload |-> p] : p \in Payloads}
      \cup {[ok |-> FALSE, cause |-> m, payload |-> NoPayload] : m \in Causes}

NoResponse == [ok |-> FALSE, cause |-> "", payload |-> NoPayload]

\* ----------------------------------------------------------- state machine
Calls == 1..NumCalls

VARIABLES
    pc,     \* pc[c]: "idle", "waiting" (axios.get in flight) or "done"
    entry,  \* entry[c]: "handler" (tools/call) or "function" (direct call)
    req,    \* req[c]: the request of the call
    url,    \* url[c]: the URL handed to axios.get, <<>> when none was
    sent,   \* sent[c]: the number of axios.get calls of the call
    rsp,    \* rsp[c]: how axios.get settled
    out,    \* out[c]: how the call completed
    built   \* the last application of generateWhoODataUrl, when one is held

vars == <<pc, entry, req, url, sent, rsp, out, built>>

NoOutcome == [kind |-> "none"]

NoRequest == Request(TOOL_NAME, FALSE, "undefined", NoParams)

NoBuild == [held |-> FALSE, endpoint |-> Undef, params |-> <<>>, url |-> <<>>]

Init ==
    /\ pc = [c \in Calls |-> "idle"]
    /\ entry = [c \in Calls |-> "handler"]
    /\ req = [c \in Calls |-> NoRequest]
    /\ url = [c \in Calls |-> <<>>]
    /\ sent = [c \in Calls |-> 0]
    /\ rsp = [c \in Calls |-> NoResponse]
    /\ out = [c \in Calls |-> NoOutcome]
    /\ built = NoBuild

\* A call begins: it runs to its first await or to its end.
Begin(c, how, request, r) ==
    /\ pc[c] = "idle"
    /\ entry' = [entry EXCEPT ![c] = how]
    /\ req' = [req EXCEPT ![c] = request]
    /\ rsp' = [rsp EXCEPT ![c] = NoResponse]
    /\ UNCHANGED built
    /\ IF r.kind = "await"
       THEN /\ pc' = [pc EXCEPT ![c] = "waiting"]
            /\ url' = [url EXCEPT ![c] = r.url]
            /\ sent' = [sent EXCEPT ![c] = 1]
            /\ out' = [out EXCEPT ![c] = NoOutcome]
       ELSE /\ pc' = [pc EXCEPT ![c] = "done"]
            /\ url' = [url EXCEPT ![c] = <<>>]
            /\ sent' = [sent EXCEPT ![c] = 0]
            /\ out' = [out EXCEPT ![c] =
                         IF r.kind = "throw"
                         THEN [kind |-> "throw", error |-> r.error]
                         ELSE r]

\* The client calls the tool: the CallToolRequestSchema handler runs.
CallTool(c) ==
    \E request \in ToolRequests :
        Begin(c, "handler", request, HandlerStart(request))

\* An operation exported by who-api.js is called directly.
Invoke(c) ==
    \E m \in Methods : \E p \in ArgsFor(m) :
        Begin(c, "function", Request(TOOL_NAME, TRUE, m, p), OpStart(m, p))

\* The call resumes with the request and the URL of the latest call, as if
\* they were kept in one variable of the module.
Finish_Shared(c, resp) ==
    LET latest == CHOOSE d \in Calls :
                      /\ pc[d] = "waiting"
                      /\ \A e \in Calls : pc[e] = "waiting" => e <= d
    IN  /\ rsp' = [rsp EXCEPT ![c] = resp]
        /\ out' = [out EXCEPT ![c] =
                     IF entry[c] = "handler"
                     THEN HandlerFinish(req[latest], url[latest], resp)
                     ELSE OpFinish(req[latest].method, req[latest].params,
                                   url[latest], resp)]
        /\ pc' = [pc EXCEPT ![c] = "done"]
        /\ UNCHANGED <<entry, req, url, sent, built>>

\* The call resumes with the settled request and runs to its end.
Finish(c, resp) ==
    /\ rsp' = [rsp EXCEPT ![c] = resp]
    /\ out' = [out EXCEPT ![c] =
                 IF entry[c] = "handler"
                 THEN HandlerFinish(req[c], url[c], resp)
                 ELSE OpFinish(req[c].method, req[c].params, url[c], resp)]
    /\ pc' = [pc EXCEPT ![c] = "done"]
    /\ UNCHANGED <<entry, req, url, sent, built>>

\* A failed axios.get is issued once more before the call gives up.
Settle_Retry(c) ==
    /\ pc[c] = "waiting"
    /\ \E resp \in Responses :
        IF ~resp.ok /\ sent[c] < 2
        THEN /\ sent' = [sent EXCEPT ![c] = sent[c] + 1]
             /\ UNCHANGED <<pc, entry, req, url, rsp, out, built>>
        ELSE Finish(c, resp)

\* axios.get settles and the call runs to its end.
Settle(c) ==
    /\ pc[c] = "waiting"
    /\ \E resp \in Responses : Finish(c, resp)

\* The caller has taken the outcome; nothing of the call is kept.
Release(c) ==
    /\ pc[c] = "done"
    /\ pc' = [pc EXCEPT ![c] = "idle"]
    /\ entry' = [entry EXCEPT ![c] = "handler"]
    /\ req' = [req EXCEPT ![c] = NoRequest]
    /\ url' = [url EXCEPT ![c] = <<>>]
    /\ sent' = [sent EXCEPT ![c] = 0]
    /\ rsp' = [rsp EXCEPT ![c] = NoResponse]
    /\ out' = [out EXCEPT ![c] = NoOutcome]
    /\ UNCHANGED built

\* One call at a time, in the first slot.
Next ==
    \/ CallTool(1)
    \/ Invoke(1)
    \/ Settle(1)
    \/ Release(1)

Spec == Init /\ [][Next]_vars


\* ------------------------------------------------------ concurrent calls
\* The tools/call requests of the concurrent specification.
ConcRequests ==
    {Request(TOOL_NAME, TRUE, "get_health_data",
             With(NoParams, [indicator_code |-> Str(IN_X)])),
     Request(TOOL_NAME, TRUE, "get_cross_table",
             With(NoParams, [indicator_code |-> Str(IN_X),
                             countries |-> Str(IN_USA_FRA)]))}

\* The direct calls of the concurrent specification.
ConcInvocations ==
    {Request(TOOL_NAME, TRUE, "get_country_data",
             With(NoParams, [indicator_code |-> Str(IN_X),
                             country_code |-> Str(IN_USA),
                             year |-> Str(IN_2019)])),
     Request(TOOL_NAME, TRUE, "get_dimension_codes",
             With(NoParams, [dimension_code |-> Str(IN_COUNTRY)])),
     Request(TOOL_NAME, TRUE, "get_health_data", NoParams)}

\* How axios.get settles in the concurrent specification.
ConcResponses ==
    {[ok |-> FALSE, cause |-> "timeout of 30000ms exceeded", payload |-> NoPayload],
     [ok |-> TRUE, cause |-> "", payload |-> Payload("object", 0, <<>>, <<>>)],
     [ok |-> TRUE, cause |-> "", payload |-> Payload("array", 0, <<>>, <<FullRecord>>)]}

CallToolConc(c) ==
    \E request \in ConcRequests :
        Begin(c, "handler", request, HandlerStart(request))

InvokeConc(c) ==
    \E request \in ConcInvocations :
        Begin(c, "function", request, OpStart(request.method, request.params))

SettleConc(c) ==
    /\ pc[c] = "waiting"
    /\ \E resp \in ConcResponses : Finish(c, resp)

\* Any number of calls in flight, their steps interleaved in any order.
NextConc ==
    \E c \in Calls :
        \/ CallToolConc(c)
        \/ InvokeConc(c)
        \/ SettleConc(c)
        \/ Release(c)

SpecConc == Init /\ [][NextConc]_vars

\* ------------------------------------------------------- the URL builder
BuilderEndpoints ==
    {Undef, EmptyStr, Str(IN_X), Str(S_DIMENSION_ \o IN_COUNTRY)}

BuilderValues ==
    {Undef, Null, EmptyStr, Str(IN_Filter), Num(0), Num(10)}

\* The keys of the mapping in each insertion order, for every subset of them.
BuilderKeys ==
    LET keys == {S_filter, S_top, S_orderby} IN
    UNION {{ks \in [1..k -> keys] : \A i, j \in 1..k : ks[i] = ks[j] => i = j}
           : k \in 0..3}

\* generateWhoODataUrl is applied to an endpoint and a mapping.
BuildUrl ==
    /\ ~built.held
    /\ \E endpoint \in BuilderEndpoints, ks \in BuilderKeys :
         \E vs \in [1..Len(ks) -> BuilderValues] :
            LET params == [i \in 1..Len(ks) |-> <<ks[i], vs[i]>>] IN
            built' = [held |-> TRUE, endpoint |-> endpoint, params |-> params,
                      url |-> generateWhoODataUrl(endpoint, params)]
    /\ UNCHANGED <<pc, entry, req, url, sent, rsp, out>>

\* The caller has taken the URL.
ReturnUrl ==
    /\ built.held
    /\ built' = NoBuild
    /\ UNCHANGED <<pc, entry, req, url, sent, rsp, out>>

NextUrl ==
    \/ BuildUrl
    \/ ReturnUrl

SpecUrl == Init /\ [][NextUrl]_vars
\* ------------------------------------------------- reading a call's outcome
DataMethods == {"get_health_data", "get_country_data", "get_cross_table"}

\* The call is one of the six operations, through the handler or directly.
IsOperationCall(c) ==
    /\ pc[c] # "idle"
    /\ req[c].name = TOOL_NAME
    /\ req[c].hasArgs
    /\ req[c].method \in Methods

Completed(c) == pc[c] = "done"

\* The object the handler serialised into its text content.
Json(c) == out[c].value.content[1].text.json

\* The call ended in an error: raised to the caller, or reported by the
\* handler as an { error } object.
Failed(c) ==
    /\ Completed(c)
    /\ \/ out[c].kind = "throw"
       \/ out[c].kind = "return" /\ entry[c] = "handler" /\ "error" \in DOMAIN Json(c)

Succeeded(c) == Completed(c) /\ ~Failed(c)

ErrorMessage(c) ==
    IF out[c].kind = "throw" THEN out[c].error.message ELSE Json(c).error

\* The result object of a successful call.
Result(c) == IF entry[c] = "handler" THEN Json(c) ELSE out[c].value

ListField(method) ==
    CASE method = "get_dimensions" -> "dimensions"
      [] method = "get_dimension_codes" -> "codes"
      [] method = "search_indicators" -> "indicators"
      [] method = "get_cross_table" -> "structured_data"
      [] OTHER -> "data"

ResultList(c) == Result(c)[ListField(req[c].method)]

MissingParameterMessages ==
    {<<MSG_IndicatorRequired>>, <<MSG_DimensionCodeRequired>>,
     <<MSG_HealthDataRequired>>, <<MSG_KeywordsRequired>>,
     <<MSG_CountryDataRequired>>, <<MSG_CrossTableRequired>>}

IsMissingParameter(message) == message \in MissingParameterMessages

IsUpstreamRequestFailed(message) ==
    Len(message) = 2 /\ message[1] = MSG_RequestFailed /\ message[2] # ""

\* sub occurs in chars
Contains(chars, sub) ==
    \E i \in 0..(Len(chars) - Len(sub)) :
        SubSeq(chars, i + 1, i + Len(sub)) = sub

\* The query string of a URL: what follows the first '?'.
QueryOf(u) ==
    LET i == IndexOf(u, "?", 1) IN
    IF i = 0 THEN <<>> ELSE SubSeq(u, i + 1, Len(u))

\* The key=value pairs of a URL, still encoded.
PairsOf(u) == IF QueryOf(u) = <<>> THEN <<>> ELSE Split(QueryOf(u), "&")

StartsWith(chars, prefix) ==
    Len(chars) >= Len(prefix) /\ SubSeq(chars, 1, Len(prefix)) = prefix

HasKey(u, key) ==
    \E i \in 1..Len(PairsOf(u)) :
        StartsWith(PairsOf(u)[i], Encode(key) \o <<"=">>)

\* The encoded value of the first pair with the key.
ValueOf(u, key) ==
    LET pairs == PairsOf(u)
        i == CHOOSE j \in 1..Len(pairs) :
                 StartsWith(pairs[j], Encode(key) \o <<"=">>)
    IN  SubSeq(pairs[i], Len(Encode(key)) + 2, Len(pairs[i]))

\* ------------------------------------------------------------------ claims

\* C1: a get-health-data, get-country-data or get-cross-table call whose
\* indicator code is absent or empty fails with a missing-parameter error,
\* and at no point of the call is a request issued, whatever the other
\* parameters are.
C1_NoIndicatorNoRequest ==
    \A c \in Calls :
        (IsOperationCall(c) /\ req[c].method \in DataMethods
           /\ ~Truthy(req[c].params.indicator_code))
        => /\ Completed(c)
           /\ Failed(c)
           /\ IsMissingParameter(ErrorMessage(c))
           /\ sent[c] = 0
           /\ url[c] = <<>>

\* A direct get-cross-table call with an empty indicator code and other
\* parameters set has completed.
C1_Witness ==
    \E c \in Calls :
        /\ Completed(c)
        /\ entry[c] = "function"
        /\ req[c].method = "get_cross_table"
        /\ req[c].params.indicator_code = EmptyStr
        /\ Truthy(req[c].params.countries)
        /\ Failed(c)

\* C2 (as claimed): the functions getDimensionCodes and searchIndicators,
\* called without their required parameter, fail with a missing-parameter
\* error and issue no request.
C2_FunctionsRejectMissingParameter ==
    \A c \in Calls :
        (IsOperationCall(c) /\ entry[c] = "function"
           /\ \/ req[c].method = "get_dimension_codes"
                   /\ ~Truthy(req[c].params.dimension_code)
              \/ req[c].method = "search_indicators"
                   /\ ~Truthy(req[c].params.keywords))
        => /\ Completed(c)
           /\ Failed(c)
           /\ IsMissingParameter(ErrorMessage(c))
           /\ sent[c] = 0

\* The text before the first ':' of a year input, and the text between the
\* first ':' and the next one (or the end).
LowerBound(year) == SubSeq(year, 1, IndexOf(year, ":", 1) - 1)

UpperBound(year) ==
    LET rest == SubSeq(year, IndexOf(year, ":", 1) + 1, Len(year))
        j == IndexOf(rest, ":", 1)
    IN  IF j = 0 THEN rest ELSE SubSeq(rest, 1, j - 1)

\* The year clause the claims describe.
ClaimedYearClause(year) ==
    IF IndexOf(year, ":", 1) # 0
    THEN S_TimeGe \o LowerBound(year) \o S_AndTimeLe \o UpperBound(year)
    ELSE S_TimeEq \o year

\* The year input of a get-country-data (year) or get-cross-table (years)
\* call.
YearInput(c) ==
    IF req[c].method = "get_country_data" THEN req[c].params.year
    ELSE req[c].params.years

\* C3 (as claimed): in get-country-data and get-cross-table, a non-empty
\* year input with a ':' yields 'TimeDim ge <lower> and TimeDim le <upper>'
\* in the filter of the request, any other non-empty one 'TimeDim eq <year>'.
C3_YearClause ==
    \A c \in Calls :
        (IsOperationCall(c) /\ sent[c] = 1
           /\ req[c].method \in {"get_country_data", "get_cross_table"}
           /\ YearInput(c).t = "string" /\ YearInput(c).s # <<>>)
        => /\ HasKey(url[c], S_filter)
           /\ Contains(ValueOf(url[c], S_filter),
                       Encode(ClaimedYearClause(YearInput(c).s)))

\* C4: with none of country code / countries, year / years and sex set,
\* get-country-data and get-cross-table derive the filter null and the URL
\* of the request has no $filter parameter, with or without a value.
C4_NoConstraintsNoFilter ==
    \A c \in Calls :
        (IsOperationCall(c) /\ sent[c] = 1
           /\ req[c].method \in {"get_country_data", "get_cross_table"}
           /\ ~Truthy(req[c].params.country_code)
           /\ ~Truthy(req[c].params.countries)
           /\ ~Truthy(YearInput(c))
           /\ ~Truthy(req[c].params.sex))
        => /\ ~HasKey(url[c], S_filter)
           /\ ~Contains(url[c], Encode(S_filter))
           /\ ~Contains(url[c], S_filter)
           /\ IF req[c].method = "get_country_data"
              THEN CountryDataDelegate(req[c].params).filter = Null
              ELSE CrossTableDelegate(req[c].params).filter = Null

\* A get-country-data request without constraints is in flight although the
\* caller supplied a filter and an ordering of their own.
C4_Witness ==
    \E c \in Calls :
        /\ pc[c] = "waiting"
        /\ req[c].method = "get_country_data"
        /\ req[c].params = Params([indicator_code |-> Str(IN_X),
                                   filter |-> Str(IN_Filter),
                                   orderby |-> Str(IN_OrderBy)])
        /\ HasKey(url[c], S_orderby)


\* The number of records a result reports: total_count, or
\* summary.total_records in a get-cross-table result.
ReportedCount(c) ==
    IF "total_count" \in DOMAIN Result(c) THEN Result(c).total_count
    ELSE Result(c).summary.total_records

\* C5 (as claimed): for every operation, a decoded payload whose `value` is
\* absent or not a list gives an empty result list and a count of 0, never
\* an error.
C5_NoValueListEmptyResult ==
    \A c \in Calls :
        (IsOperationCall(c) /\ Completed(c) /\ sent[c] = 1
           /\ rsp[c].ok /\ rsp[c].payload.kind # "array")
        => /\ Succeeded(c)
           /\ ResultList(c) = <<>>
           /\ ReportedCount(c) = 0

\* C6 (as claimed): every successful return value of every operation has a
\* total_count field equal to the length of its result list.
C6_TotalCountEverywhere ==
    \A c \in Calls :
        (IsOperationCall(c) /\ Succeeded(c))
        => /\ "total_count" \in DOMAIN Result(c)
           /\ Result(c).total_count = Len(ResultList(c))

\* C6 (amended): every successful return value of the five operations other
\* than get-cross-table has total_count equal to the length of its result
\* list; the get-cross-table result has no total_count, and its
\* summary.total_records equals the length of structured_data.
C6_TotalCountOrTotalRecords ==
    \A c \in Calls :
        (IsOperationCall(c) /\ Succeeded(c))
        => IF req[c].method # "get_cross_table"
           THEN /\ "total_count" \in DOMAIN Result(c)
                /\ Result(c).total_count = Len(ResultList(c))
           ELSE /\ "total_count" \notin DOMAIN Result(c)
                /\ Result(c).summary.total_records = Len(ResultList(c))

\* A get-health-data call through the handler returned two or more data
\* points, one of them without a value.
C6_Witness ==
    \E c \in Calls :
        /\ Succeeded(c)
        /\ entry[c] = "handler"
        /\ req[c].method = "get_health_data"
        /\ Len(ResultList(c)) >= 2
        /\ \E i \in 1..Len(ResultList(c)) : ResultList(c)[i].value = EmptyStr

\* The distinct values of a field among the upstream records that carry it.
DistinctPresent(list, field) ==
    {list[i][field] : i \in 1..Len(list)} \ {Undef, Null}

\* C7 (as claimed): in a get-cross-table result, unique_countries and
\* unique_years are the numbers of distinct non-missing SpatialDim and
\* TimeDim values among the upstream records, and total_records is the
\* length of structured_data.
C7_SummaryCountsPresentValues ==
    \A c \in Calls :
        (IsOperationCall(c) /\ Succeeded(c) /\ req[c].method = "get_cross_table"
           /\ rsp[c].payload.kind = "array")
        => /\ Result(c).summary.unique_countries =
                Cardinality(DistinctPresent(rsp[c].payload.list, "SpatialDim"))
           /\ Result(c).summary.unique_years =
                Cardinality(DistinctPresent(rsp[c].payload.list, "TimeDim"))
           /\ Result(c).summary.total_records = Len(Result(c).structured_data)

\* chars without its leading and trailing white space.
Stripped(chars) ==
    LET solid == {i \in 1..Len(chars) : chars[i] \notin WhiteSpace} IN
    IF solid = {} THEN <<>>
    ELSE SubSeq(chars,
                CHOOSE i \in solid : \A j \in solid : i <= j,
                CHOOSE i \in solid : \A j \in solid : i >= j)

\* Each comma-separated country, stripped and single-quoted, joined by commas.
RECURSIVE ClaimedCountryList(_)
ClaimedCountryList(chars) ==
    LET i == IndexOf(chars, ",", 1) IN
    IF i = 0 THEN Quote \o Stripped(chars) \o Quote
    ELSE Quote \o Stripped(SubSeq(chars, 1, i - 1)) \o Quote \o <<",">>
           \o ClaimedCountryList(SubSeq(chars, i + 1, Len(chars)))

NonEmpty(v) == v.t = "string" /\ v.s # <<>>

\* The clauses of the get-cross-table filter the claim describes, in order.
ClaimedCrossTableClauses(params) ==
    (IF NonEmpty(params.countries)
     THEN <<S_SpatialIn \o ClaimedCountryList(params.countries.s) \o <<")">> >>
     ELSE <<>>)
      \o (IF NonEmpty(params.years)
          THEN <<ClaimedYearClause(params.years.s)>> ELSE <<>>)
      \o (IF NonEmpty(params.sex)
          THEN <<S_Dim1Eq \o params.sex.s \o Quote>> ELSE <<>>)

\* C8: the $filter of a get-cross-table request is the countries clause, the
\* year clause and the sex clause, each present iff its parameter is
\* non-empty, in that order, joined by ' and '; with no clause there is no
\* $filter.
C8_CrossTableFilter ==
    \A c \in Calls :
        (IsOperationCall(c) /\ sent[c] = 1 /\ req[c].method = "get_cross_table")
        => LET clauses == ClaimedCrossTableClauses(req[c].params) IN
           IF clauses = <<>> THEN ~HasKey(url[c], S_filter)
           ELSE /\ HasKey(url[c], S_filter)
                /\ ValueOf(url[c], S_filter) = Encode(Join(clauses, S_And))

C8_ExampleFilter ==
    <<"S", "p", "a", "t", "i", "a", "l", "D", "i", "m", " ", "i", "n", " ", "(", "'", "U", "S", "A", "'", ",", "'", "F", "R", "A", "'", ")", " ", "a", "n", "d", " ", "T", "i", "m", "e", "D", "i", "m", " ", "g", "e", " ", "2", "0", "1", "8", " ", "a", "n", "d", " ", "T", "i", "m", "e", "D", "i", "m", " ", "l", "e", " ", "2", "0", "2", "0">>

\* The example of the claim: countries ' USA , FRA' (to be trimmed) and
\* years '2018:2020' give the filter of the example.
C8_Witness ==
    \E c \in Calls :
        /\ pc[c] = "waiting"
        /\ req[c].method = "get_cross_table"
        /\ req[c].params.countries = Str(IN_USA_FRA_Spaced)
        /\ req[c].params.years = Str(IN_2018_2020)
        /\ ~Truthy(req[c].params.sex)
        /\ ValueOf(url[c], S_filter) = Encode(C8_ExampleFilter)

\* The request of a handler call asks for a failure: no arguments, an
\* unknown method, or a required parameter missing.
BadRequest(c) ==
    \/ ~req[c].hasArgs
    \/ req[c].method \notin Methods
    \/ CaseCheck(req[c].method, req[c].params) # ""

\* C9: a who-health tool call never raises; it returns one text content, and
\* when the request is bad, the upstream request fails or the operation
\* throws, the content is a JSON object with a non-empty `error`.
C9_HandlerReportsFailures ==
    \A c \in Calls :
        (Completed(c) /\ entry[c] = "handler" /\ req[c].name = TOOL_NAME)
        => /\ out[c].kind = "return"
           /\ Len(out[c].value.content) = 1
           /\ out[c].value.content[1].type = "text"
           /\ (BadRequest(c) \/ (sent[c] = 1 /\ ~rsp[c].ok)
                 \/ (sent[c] = 1 /\ rsp[c].payload.kind = "object"))
              => /\ DOMAIN Json(c) = {"error"}
                 /\ Json(c).error # <<>>
                 /\ \A i \in 1..Len(Json(c).error) : Json(c).error[i] # ""

\* A get-dimensions call through the handler completed after its request
\* timed out.
C9_Witness ==
    \E c \in Calls :
        /\ Completed(c)
        /\ entry[c] = "handler"
        /\ req[c].method = "get_dimensions"
        /\ sent[c] = 1
        /\ rsp[c].cause = "timeout of 30000ms exceeded"
        /\ IsUpstreamRequestFailed(Json(c).error)

\* A result envelope: the list of the operation with its provenance, and no
\* error.
WellFormed(c) ==
    /\ {ListField(req[c].method), "source", "api_url"} \subseteq DOMAIN Result(c)
    /\ "error" \notin DOMAIN Result(c)
    /\ Result(c).source = SOURCE
    /\ Result(c).api_url = url[c]

\* C10 (as claimed): a completed call of an operation either returns a
\* well-formed envelope without an error, or fails with a missing-parameter
\* or an upstream-request-failed error and returns no data.
C10_TwoOutcomes ==
    \A c \in Calls :
        (IsOperationCall(c) /\ Completed(c))
        => \/ Succeeded(c) /\ WellFormed(c)
           \/ /\ Failed(c)
              /\ \/ IsMissingParameter(ErrorMessage(c))
                 \/ IsUpstreamRequestFailed(ErrorMessage(c))
              /\ out[c].kind = "return" => DOMAIN Json(c) = {"error"}


\* C11: in every execution of every operation, the composed ones and the
\* failing ones included, at most one outbound request is issued.
C11_AtMostOneRequest ==
    \A c \in Calls :
        /\ sent[c] <= 1
        /\ pc[c] = "waiting" => sent[c] = 1
        /\ (Completed(c) /\ rsp[c] # NoResponse) => sent[c] = 1

\* A get-cross-table call completed after its only request timed out.
C11_Witness ==
    \E c \in Calls :
        /\ Completed(c)
        /\ req[c].method = "get_cross_table"
        /\ rsp[c].cause = "timeout of 30000ms exceeded"
        /\ sent[c] = 1

\* C12: when the request of an operation fails at transport level, the
\* operation fails with an upstream-request-failed error whose message
\* embeds the message of the original failure, and no envelope is returned.
C12_TransportFailureWrapped ==
    \A c \in Calls :
        (IsOperationCall(c) /\ Completed(c) /\ sent[c] = 1 /\ ~rsp[c].ok)
        => /\ Failed(c)
           /\ ErrorMessage(c) = <<MSG_RequestFailed, rsp[c].cause>>
           /\ rsp[c].cause \in Causes
           /\ entry[c] = "function" => out[c].kind = "throw"
           /\ entry[c] = "handler" => DOMAIN Json(c) = {"error"}

\* A direct get-country-data call failed on an undecodable body.
C12_Witness ==
    \E c \in Calls :
        /\ Completed(c)
        /\ entry[c] = "function"
        /\ req[c].method = "get_country_data"
        /\ rsp[c].cause = "Unexpected token < in JSON at position 0"
        /\ out[c].kind = "throw"

\* The record carries the field (with a value other than null).
Carries(record, field) == record[field] \notin {Undef, Null}

\* C13 (as claimed): the data point of a record has numeric_value equal to
\* the record's NumericValue whenever the record carries one, null only
\* when it carries none, and value and display_value equal to the record's
\* Value whenever it carries one.
C13_DataPointValues ==
    \A c \in Calls :
        (IsOperationCall(c) /\ Succeeded(c) /\ req[c].method = "get_health_data"
           /\ rsp[c].payload.kind = "array")
        => \A i \in 1..Len(rsp[c].payload.list) :
               LET fact == rsp[c].payload.list[i]
                   point == Result(c).data[i]
               IN  /\ Carries(fact, "NumericValue")
                        => point.numeric_value = fact.NumericValue
                   /\ point.numeric_value = Null => ~Carries(fact, "NumericValue")
                   /\ Carries(fact, "Value")
                        => /\ point.value = fact.Value
                           /\ point.display_value = fact.Value

\* The <<output field, source field>> pairs of the projection of a method.
DataPointFieldMap ==
    {<<"value", "Value">>, <<"numeric_value", "NumericValue">>,
     <<"display_value", "Value">>, <<"spatial_dim", "SpatialDim">>,
     <<"time_dim", "TimeDim">>, <<"time_dim_begin", "TimeDimensionBegin">>,
     <<"time_dim_end", "TimeDimensionEnd">>, <<"dim1", "Dim1">>,
     <<"dim2", "Dim2">>, <<"dim3", "Dim3">>, <<"comments", "Comments">>,
     <<"data_source_code", "DataSourceCode">>}

FieldMap(method) ==
    CASE method = "get_dimensions" ->
           {<<"code", "Code">>, <<"title", "Title">>,
            <<"description", "Description">>}
      [] method = "get_dimension_codes" ->
           {<<"code", "Code">>, <<"title", "Title">>,
            <<"description", "Description">>, <<"parent_code", "ParentCode">>}
      [] method = "search_indicators" ->
           {<<"code", "IndicatorCode">>, <<"name", "IndicatorName">>,
            <<"category", "Category">>, <<"definition", "Definition">>,
            <<"method", "Method">>, <<"interpretation", "Interpretation">>}
      [] OTHER -> DataPointFieldMap

\* The output field the claim expects for a record.
ClaimedField(record, pair) ==
    IF Carries(record, pair[2]) THEN record[pair[2]]
    ELSE IF pair[1] = "parent_code" THEN Null
    ELSE EmptyStr

\* C14 (as claimed): for every operation and every record of the value
\* list, the projection does not raise, and each output field equals the
\* source field when present and otherwise the empty string, except
\* parent_code, which is null when ParentCode is absent.
C14_FieldsOrEmpty ==
    \A c \in Calls :
        (IsOperationCall(c) /\ Completed(c) /\ sent[c] = 1 /\ rsp[c].ok
           /\ rsp[c].payload.kind = "array")
        => /\ Succeeded(c)
           /\ Len(ResultList(c)) = Len(rsp[c].payload.list)
           /\ \A i \in 1..Len(rsp[c].payload.list) :
                  \A pair \in FieldMap(req[c].method) :
                      ResultList(c)[i][pair[1]] =
                          ClaimedField(rsp[c].payload.list[i], pair)

\* The output field as amended: the source field when truthy, otherwise the
\* default of the output field.
AmendedField(record, pair) ==
    IF Truthy(record[pair[2]]) THEN record[pair[2]]
    ELSE IF pair[1] \in {"parent_code", "numeric_value"} THEN Null
    ELSE IF pair[1] = "value" /\ Truthy(record.NumericValue)
    THEN record.NumericValue
    ELSE EmptyStr

\* C14 (amended): the projection does not raise, and each output field
\* equals the source field when the record carries it with a truthy value,
\* and otherwise its default: the empty string, except parent_code and
\* numeric_value, whose default is null, and value, which falls back to a
\* truthy NumericValue before the empty string.
C14_FieldsOrDefault ==
    \A c \in Calls :
        (IsOperationCall(c) /\ Completed(c) /\ sent[c] = 1 /\ rsp[c].ok
           /\ rsp[c].payload.kind = "array")
        => /\ Succeeded(c)
           /\ Len(ResultList(c)) = Len(rsp[c].payload.list)
           /\ \A i \in 1..Len(rsp[c].payload.list) :
                  \A pair \in FieldMap(req[c].method) :
                      ResultList(c)[i][pair[1]] =
                          AmendedField(rsp[c].payload.list[i], pair)

\* The scenario of the specification: list-dimension-codes over a record
\* without and a record with ParentCode.
C14_Witness ==
    \E c \in Calls :
        /\ Succeeded(c)
        /\ req[c].method = "get_dimension_codes"
        /\ Len(Result(c).codes) = 2
        /\ Result(c).codes[1].code = Str(IN_USA)
        /\ Result(c).codes[1].parent_code = Null
        /\ Result(c).codes[1].description = EmptyStr
        /\ Result(c).codes[2].parent_code = Str(IN_EUR)

\* C15 (as claimed): when the caller of get_country_data supplies
\* region_code, the $filter of the request has a clause with that value.
C15_RegionCodeFilters ==
    \A c \in Calls :
        (IsOperationCall(c) /\ sent[c] = 1 /\ req[c].method = "get_country_data"
           /\ NonEmpty(req[c].params.region_code))
        => /\ HasKey(url[c], S_filter)
           /\ Contains(ValueOf(url[c], S_filter),
                       Encode(req[c].params.region_code.s))

\* The limit the claim expects in a get-cross-table request.
ClaimedTop(params) ==
    IF params.top.t = "undefined" THEN <<"1", "0", "0", "0">>
    ELSE ToStr(params.top)

\* C18 (as claimed): every get-cross-table request carries $orderby
\* 'SpatialDim, TimeDim desc' and $top equal to the caller's limit when one
\* is given and to 1000 otherwise; every get-country-data request carries
\* $orderby 'TimeDim desc'; an ordering supplied by the caller has no effect.
C18_OrderingAndLimit ==
    \A c \in Calls :
        (IsOperationCall(c) /\ sent[c] = 1)
        => /\ req[c].method = "get_cross_table"
                => /\ HasKey(url[c], S_orderby)
                   /\ ValueOf(url[c], S_orderby) = Encode(S_SpatialTimeDesc)
                   /\ HasKey(url[c], S_top)
                   /\ ValueOf(url[c], S_top) = Encode(ClaimedTop(req[c].params))
           /\ req[c].method = "get_country_data"
                => /\ HasKey(url[c], S_orderby)
                   /\ ValueOf(url[c], S_orderby) = Encode(S_TimeDimDesc)

\* The projection of one record by the operation of a call.
ProjectionOf(c, record) ==
    CASE req[c].method = "get_dimensions" -> DimensionOf(record)
      [] req[c].method = "get_dimension_codes" -> DimensionCodeOf(record)
      [] req[c].method = "search_indicators" -> IndicatorOf(record)
      [] OTHER -> DataPointOf(req[c].params.indicator_code, record)

\* C19: for every operation and every payload whose value is a list, the
\* result list has the length of the value list and its i-th element is the
\* projection of the i-th record.
C19_OneResultPerRecord ==
    \A c \in Calls :
        (IsOperationCall(c) /\ Succeeded(c) /\ rsp[c].payload.kind = "array")
        => /\ Len(ResultList(c)) = Len(rsp[c].payload.list)
           /\ \A i \in 1..Len(rsp[c].payload.list) :
                  ResultList(c)[i] = ProjectionOf(c, rsp[c].payload.list[i])

\* A get-cross-table result keeps both of two equal upstream records, and
\* counts their country once.
C19_Witness ==
    \E c \in Calls :
        /\ Succeeded(c)
        /\ req[c].method = "get_cross_table"
        /\ Len(rsp[c].payload.list) = 2
        /\ rsp[c].payload.list[1] = rsp[c].payload.list[2]
        /\ Len(Result(c).structured_data) = 2
        /\ Result(c).summary.unique_countries = 1

\* What a call does up to its first await, run alone with its parameters.
AloneStart(c) ==
    IF entry[c] = "handler" THEN HandlerStart(req[c])
    ELSE OpStart(req[c].method, req[c].params)

\* How a call ends, run alone with its parameters and its response.
AloneOutcome(c) ==
    LET r == AloneStart(c) IN
    IF r.kind = "await"
    THEN IF entry[c] = "handler" THEN HandlerFinish(req[c], r.url, rsp[c])
         ELSE OpFinish(req[c].method, req[c].params, r.url, rsp[c])
    ELSE IF r.kind = "throw" THEN [kind |-> "throw", error |-> r.error]
    ELSE r

\* C16: for any interleaving of in-flight calls, the outbound URL and the
\* result of each call are those of the call run alone with the same
\* parameters and the same upstream response.
C16_CallsDoNotInterfere ==
    \A c \in Calls :
        /\ pc[c] = "waiting"
             => /\ AloneStart(c).kind = "await"
                /\ url[c] = AloneStart(c).url
                /\ sent[c] = 1
        /\ pc[c] = "done"
             => /\ out[c] = AloneOutcome(c)
                /\ sent[c] = 1 <=> AloneStart(c).kind = "await"
                /\ sent[c] = 1 => url[c] = AloneStart(c).url

\* A call has completed with its own data while another call, with another
\* request, is still in flight.
C16_Witness ==
    \E c, d \in Calls :
        /\ c # d
        /\ pc[c] = "done" /\ pc[d] = "waiting"
        /\ req[c] # req[d]
        /\ url[c] # url[d]
        /\ sent[c] = 1
        /\ Succeeded(c)
        /\ req[c].method = "get_cross_table"
        /\ Len(Result(c).structured_data) = 1

\* The characters URLSearchParams escapes.
Escaped ==
    {"!", "#", "$", "%", "&", "'", "(", ")", "+", ",", "/", ":", ";", "<",
     "=", ">", "?", "@", "[", "]", "\t", "\n"}

\* Decoding of application/x-www-form-urlencoded text.
RECURSIVE Decode(_)
Decode(chars) ==
    IF chars = <<>> THEN <<>>
    ELSE IF Head(chars) = "+" THEN <<" ">> \o Decode(Tail(chars))
    ELSE IF Head(chars) = "%" /\ Len(chars) >= 3
    THEN <<CHOOSE x \in Escaped : EncodeChar(x) = SubSeq(chars, 1, 3)>>
           \o Decode(SubSeq(chars, 4, Len(chars)))
    ELSE <<Head(chars)>> \o Decode(Tail(chars))

\* The entries the claim keeps, in mapping order.
ClaimedKept(params) ==
    SelectSeq(params, LAMBDA e : e[2] \notin {Undef, Null, EmptyStr})

\* The base address with the path segment the claim appends.
ClaimedPath(endpoint) ==
    WHO_ODATA_BASE_URL
      \o (IF endpoint.t = "string" /\ endpoint.s # <<>>
          THEN <<"/">> \o endpoint.s ELSE <<>>)

\* C17: the URL builder drops exactly the parameters whose value is
\* undefined, null or the empty string and appends the others, URL-encoded,
\* as a query string in mapping order; the path segment is appended to the
\* base address when non-empty, and without a remaining parameter the URL
\* has no '?'.
C17_UrlBuilder ==
    built.held =>
        LET kept == ClaimedKept(built.params)
            path == ClaimedPath(built.endpoint)
            pairs == PairsOf(built.url)
        IN  /\ StartsWith(built.url, path)
            /\ kept = <<>>
                 => /\ built.url = path
                    /\ \A i \in 1..Len(built.url) : built.url[i] # "?"
            /\ kept # <<>>
                 => /\ StartsWith(built.url, path \o <<"?">>)
                    /\ Len(pairs) = Len(kept)
                    /\ \A i \in 1..Len(kept) :
                           LET eq == IndexOf(pairs[i], "=", 1) IN
                           /\ eq > 0
                           /\ \A j \in 1..Len(pairs[i]) :
                                  j # eq => pairs[i][j] \in Unreserved \cup {"%", "+"}
                           /\ Decode(SubSeq(pairs[i], 1, eq - 1)) = kept[i][1]
                           /\ Decode(SubSeq(pairs[i], eq + 1, Len(pairs[i])))
                                  = ToStr(kept[i][2])

\* A mapping whose $filter is null, whose $top is 0 and whose $orderby
\* needs encoding: the URL has the path and the two kept entries in order.
C17_Witness ==
    /\ built.held
    /\ built.endpoint = Str(IN_X)
    /\ built.params = <<<<S_filter, Null>>, <<S_top, Num(0)>>,
                        <<S_orderby, Str(IN_Filter)>>>>
    /\ built.url = WHO_ODATA_BASE_URL
                     \o <<"/", "X", "?", "%", "2", "4", "t", "o", "p", "=", "0", "&">>
                     \o <<"%", "2", "4", "o", "r", "d", "e", "r", "b", "y", "=">>
                     \o <<"D", "i", "m", "1", "+", "n", "e", "+", "n", "u", "l", "l">>

====
